---------------------------- MODULE Spec2Model ----------------------------
(***************************************************************************)
(* html2pdf: an express router (index.js), the puppeteer render adapter   *)
(* generatePdf (generator.js) and the Ghostscript compression adapter     *)
(* compressPdfBuffer (compressutil.js).                                    *)
(*                                                                         *)
(* One HTTP request is a record st[r]; every action is one run of the      *)
(* single-threaded event loop: a handler or a continuation runs from the   *)
(* settlement of the promise it awaits up to its next await.  What the     *)
(* browser, the subprocess and the client do is chosen nondeterministically*)
(* (\E ok, \E chunk, \E exitCode).                                         *)
(***************************************************************************)
EXTENDS Integers, Sequences, FiniteSets, TLC

(***************************************************************************)
(* Bounds of the model.                                                    *)
(***************************************************************************)
NReq == 2            \* request slots
MaxChunks == 2       \* stdout chunks one subprocess emits
MaxUpload == 2       \* chunks of one uploaded request body
MaxRules == 2        \* interception rules of one request
MaxTimeout == 2      \* largest timeout a request asks for, in ticks
MaxTicks == 4        \* ticks of time one request is followed for

Reqs == 1..NReq

(***************************************************************************)
(* JavaScript values.  Every value is a record of the same shape: t is    *)
(* the type tag ("nan" is the number NaN), n the number (or the boolean   *)
(* as 0/1, or an array's length), s the characters of a string.           *)
(***************************************************************************)
Undefined == [t |-> "undefined", n |-> 0, s |-> <<>>]
Null == [t |-> "null", n |-> 0, s |-> <<>>]
NaN == [t |-> "nan", n |-> 0, s |-> <<>>]
Num(n) == [t |-> "number", n |-> n, s |-> <<>>]
Str(s) == [t |-> "string", n |-> 0, s |-> s]
Bool(b) == [t |-> "boolean", n |-> IF b THEN 1 ELSE 0, s |-> <<>>]
Arr(n) == [t |-> "array", n |-> n, s |-> <<>>]

\* ToBoolean: undefined, null, NaN, 0, "" and false are falsy.
Truthy(v) ==
    CASE v.t \in {"undefined", "null", "nan"} -> FALSE
      [] v.t = "number" -> v.n # 0
      [] v.t = "boolean" -> v.n = 1
      [] v.t = "string" -> v.s # <<>>
      [] OTHER -> TRUE

Digits == <<"0", "1", "2", "3", "4", "5", "6", "7", "8", "9">>
IsDigit(c) == \E i \in 1..10 : Digits[i] = c
DigitVal(c) == (CHOOSE i \in 1..10 : Digits[i] = c) - 1
IsSpace(c) == c = " "

RECURSIVE SkipSpaces(_)
SkipSpaces(s) == IF s # <<>> /\ IsSpace(Head(s)) THEN SkipSpaces(Tail(s)) ELSE s

RECURSIVE DropTrailingSpaces(_)
DropTrailingSpaces(s) ==
    IF s # <<>> /\ IsSpace(s[Len(s)])
    THEN DropTrailingSpaces(SubSeq(s, 1, Len(s) - 1)) ELSE s

\* The longest prefix of s made of decimal digits.
RECURSIVE DigitPrefix(_)
DigitPrefix(s) ==
    IF s # <<>> /\ IsDigit(Head(s)) THEN <<Head(s)>> \o DigitPrefix(Tail(s)) ELSE <<>>

RECURSIVE DigitsValue(_, _)
DigitsValue(s, acc) ==
    IF s = <<>> THEN acc ELSE DigitsValue(Tail(s), 10 * acc + DigitVal(Head(s)))

\* parseInt(s, 10): leading blanks skipped, an optional sign, then the
\* longest run of digits; NaN when there is no digit.
ParseInt(s) ==
    LET t == SkipSpaces(s)
        neg == t # <<>> /\ Head(t) = "-"
        u == IF t # <<>> /\ Head(t) \in {"-", "+"} THEN Tail(t) ELSE t
        d == DigitPrefix(u)
    IN IF d = <<>> THEN NaN
       ELSE Num(IF neg THEN 0 - DigitsValue(d, 0) ELSE DigitsValue(d, 0))

\* ToNumber of a string: blanks trimmed, "" is 0, a whole decimal integer is
\* its value, anything else NaN.
StringToNumber(s) ==
    LET t == DropTrailingSpaces(SkipSpaces(s))
        neg == t # <<>> /\ Head(t) = "-"
        u == IF t # <<>> /\ Head(t) \in {"-", "+"} THEN Tail(t) ELSE t
    IN IF t = <<>> THEN Num(0)
       ELSE IF u # <<>> /\ DigitPrefix(u) = u
            THEN Num(IF neg THEN 0 - DigitsValue(u, 0) ELSE DigitsValue(u, 0))
            ELSE NaN

ToNumber(v) ==
    CASE v.t = "undefined" -> NaN
      [] v.t = "null" -> Num(0)
      [] v.t = "nan" -> NaN
      [] v.t = "number" -> v
      [] v.t = "boolean" -> Num(v.n)
      [] v.t = "string" -> StringToNumber(v.s)
      [] OTHER -> NaN

\* Math.min(a, b) and Math.max(a, b): NaN as soon as one argument is NaN.
MathMin(a, b) ==
    LET x == ToNumber(a)
        y == ToNumber(b)
    IN IF x.t = "nan" \/ y.t = "nan" THEN NaN ELSE IF x.n <= y.n THEN x ELSE y

MathMax(a, b) ==
    LET x == ToNumber(a)
        y == ToNumber(b)
    IN IF x.t = "nan" \/ y.t = "nan" THEN NaN ELSE IF x.n >= y.n THEN x ELSE y

\* v == true: the boolean becomes the number 1; undefined and null equal
\* only each other; anything else is compared as a number.
LooseEqualsTrue(v) ==
    CASE v.t \in {"undefined", "null"} -> FALSE
      [] v.t \in {"number", "boolean", "string", "nan"} -> ToNumber(v) = Num(1)
      [] OTHER -> FALSE

RECURSIVE NatToString(_)
NatToString(n) ==
    IF n < 10 THEN <<Digits[n + 1]>> ELSE NatToString(n \div 10) \o <<Digits[(n % 10) + 1]>>

\* `${v}` of a number: its decimal digits, "NaN" for NaN.
NumberToString(v) ==
    IF v.t = "nan" THEN <<"N", "a", "N">>
    ELSE IF v.n < 0 THEN <<"-">> \o NatToString(0 - v.n) ELSE NatToString(v.n)

\* JSON.stringify of a scalar: undefined stays undefined (no body).
JsonStringify(v) ==
    CASE v.t = "undefined" -> Undefined
      [] v.t = "null" -> Str(<<"n", "u", "l", "l">>)
      [] v.t = "number" -> Str(NumberToString(v))
      [] v.t = "nan" -> Str(<<"n", "u", "l", "l">>)
      [] v.t = "boolean" -> Str(IF v.n = 1 THEN <<"t", "r", "u", "e">>
                                          ELSE <<"f", "a", "l", "s", "e">>)
      [] v.t = "string" -> Str(<<"\"">> \o v.s \o <<"\"">>)
      [] OTHER -> Undefined

\* String.prototype.indexOf(sub) === 0
StartsWith(s, sub) == Len(s) >= Len(sub) /\ SubSeq(s, 1, Len(sub)) = sub

\* String.prototype.includes(sub)
Includes(s, sub) ==
    \E i \in 1..(Len(s) + 1) :
        i + Len(sub) - 1 <= Len(s) /\ SubSeq(s, i, i + Len(sub) - 1) = sub

RECURSIVE Concat(_)
\* Buffer.concat(chunks)
Concat(chunks) == IF chunks = <<>> THEN <<>> ELSE Head(chunks) \o Concat(Tail(chunks))


\* A default parameter value (f(x = d)): used when the argument is undefined.
Default(v, d) == IF v.t = "undefined" THEN d ELSE v

(***************************************************************************)
(* Errors, buffers, responses.                                             *)
(***************************************************************************)
\* An Error: what failed, and for a subprocess exit the exit code that the
\* message text carries.
Error(kind, code) == [kind |-> kind, code |-> code]
NoError == Error("none", Undefined)

NoResponse == [count |-> 0, status |-> 0, type |-> "", text |-> "", bytes |-> <<>>]

NoOptions == [t |-> "null", compression |-> Undefined, dpi |-> Undefined, quality |-> Undefined]
NoIntercept == [t |-> "undefined", rules |-> <<>>]

NoRequest == [handled |-> 0, url |-> <<>>, action |-> "none", status |-> 0,
              contentType |-> "", body |-> Undefined]

\* The Ghostscript child process of one compressPdfBuffer call and the promise
\* the call returns.  emitted is what the process has written to stdout so far
\* (the environment's side); outputChunks is the array the code keeps.
NoProcess ==
    [state |-> "none", dpi |-> <<>>, quality |-> <<>>, stdin |-> <<>>, stdinEnded |-> FALSE,
     outputChunks |-> <<>>, emitted |-> <<>>, stderrLogged |-> FALSE, errorEvent |-> FALSE,
     exitCode |-> Undefined, promise |-> "none", value |-> <<>>, reason |-> NoError]

NoBody ==
    [url |-> Undefined, intercept |-> NoIntercept, cookies |-> Undefined,
     compression |-> Undefined, dpi |-> Undefined, quality |-> Undefined,
     dpiParam |-> <<>>, upload |-> <<>>, timeout |-> Undefined]

\* One HTTP request: the route, the request as received, the frame of
\* generatePdf (its parameters, page, pdfBuffer, caught exception), the calls
\* made on the browser, the page and the adapters, the upload's chunks array,
\* the subprocess and the response.
Idle ==
    [kind |-> "none", pc |-> "idle", body |-> NoBody,
     url |-> Undefined, requests |-> NoIntercept, cookies |-> Null, pdfOptions |-> NoOptions,
     gen |-> "none", genCalls |-> 0, browserAt |-> "none", spawns |-> 0,
     log |-> <<>>, inflight |-> {}, touched |-> {},
     page |-> [id |-> 0, created |-> FALSE, closeCalls |-> 0, closed |-> FALSE,
               cookies |-> FALSE, interception |-> FALSE],
     navigated |-> Undefined,
     timeout |-> Undefined, navTicks |-> 0, pdfTicks |-> 0,
     ex |-> NoError, pdfBuffer |-> <<>>, result |-> <<>>,
     lastRequest |-> NoRequest,
     chunks |-> <<>>, incoming |-> <<>>,
     gs |-> NoProcess, res |-> NoResponse]

VARIABLES browser, st, pageCount
vars == <<browser, st, pageCount>>

Init ==
    /\ browser = "launching"
    /\ st = [r \in Reqs |-> Idle]
    /\ pageCount = 0

(***************************************************************************)
(* index.js: the responses of the handlers.                                *)
(***************************************************************************)
\* res.status(code).send(text)
SendText(s, code, text) ==
    [s EXCEPT !.pc = "done",
              !.res = [count |-> s.res.count + 1, status |-> code, type |-> "text/html",
                       text |-> text, bytes |-> <<>>]]

\* res.set('Content-Type', 'application/pdf'); res.send(buffer)
SendPdf(s, buffer) ==
    [s EXCEPT !.pc = "done",
              !.res = [count |-> s.res.count + 1, status |-> 200, type |-> "application/pdf",
                       text |-> "", bytes |-> buffer]]

\* Faulty variant of GenerateFailed: the error's text is sent to the caller.
GenerateFailedEcho(s, err) == SendText(s, 500, err.kind)

\* The catch blocks of the two generateReport handlers.
GenerateFailed(s, err) == SendText(s, 500, "Failed to generate PDF")

\* generatePdf returned: back in the handler's try block.
GenerateReturned(s, buffer) == SendPdf([s EXCEPT !.gen = "returned", !.result = buffer], buffer)

\* generatePdf threw (its promise rejected): the handler's catch block.
GenerateThrew(s, err) == GenerateFailed([s EXCEPT !.gen = "threw", !.ex = err], err)

\* The catch block around compressPdfBuffer in the compressPdf handler.
CompressFailed(s, err) == SendText([s EXCEPT !.ex = err], 500, "Error compressing PDF")

(***************************************************************************)
(* generator.js: generatePdf, cut at its awaits.                           *)
(***************************************************************************)
PageMethods ==
    {"page.setCookie", "page.setRequestInterception", "page.waitForSelector",
     "page.goto", "page.pdf", "page.close"}

\* Faulty variant of PageRef: page is a variable of the module, which holds
\* the page created last.
PageRefLatest(s) == pageCount

\* const page: the page the call of generatePdf created.
PageRef(s) == s.page.id

\* An asynchronous operation is started and awaited at pc: log is the
\* sequence of operations started, inflight the ones not yet settled, and
\* touched the pages whose methods were called.
Call(s, name, pc) ==
    [s EXCEPT !.log = Append(@, name), !.pc = pc, !.inflight = @ \cup {name},
              !.touched = IF name \in PageMethods THEN @ \cup {PageRef(s)} ELSE @]

\* The awaited operation has settled.
Settled(s, name) == [s EXCEPT !.inflight = @ \ {name}]

\* await page.close() of the success path, then return the buffer.
CloseThenReturn(s, buffer) ==
    Call([s EXCEPT !.result = buffer, !.page.closeCalls = @ + 1], "page.close", "closeReturn")

\* Faulty variant of CatchClose: a catch block that rethrows without closing.
CatchNoClose(s, err) == [s EXCEPT !.ex = err, !.pc = "closeThrow"]

\* catch (ex) { await page.close(); throw ex; }
CatchClose(s, err) ==
    Call([s EXCEPT !.ex = err, !.page.closeCalls = @ + 1], "page.close", "closeThrow")

\* Faulty variant of NormalizeUrl: if (url.indexOf('http://') !== 0)
NormalizeUrlPlainOnly(url) ==
    IF StartsWith(url.s, <<"h", "t", "t", "p", ":", "/", "/">>) THEN url
    ELSE Str(<<"h", "t", "t", "p", ":", "/", "/">> \o url.s)

\* if (url.indexOf('http') !== 0) url = `http://${url}`
NormalizeUrl(url) ==
    IF StartsWith(url.s, <<"h", "t", "t", "p">>) THEN url
    ELSE Str(<<"h", "t", "t", "p", ":", "/", "/">> \o url.s)

\* Faulty variant of FromNormalize: page.waitForSelector(...) without await.
FromNormalizeNoAwait(s) ==
    IF s.url.t # "string" THEN CatchClose(s, Error("TypeError", Undefined))
    ELSE LET f == Call([s EXCEPT !.url = NormalizeUrl(s.url)],
                       "page.waitForSelector", "waitForSelector")
         IN Call([f EXCEPT !.navigated = f.url], "page.goto", "goto")

\* From the url normalization to the await of page.waitForSelector.  Only a
\* string (or an array) has indexOf: any other url throws a TypeError.
FromNormalize(s) ==
    IF s.url.t # "string" THEN CatchClose(s, Error("TypeError", Undefined))
    ELSE Call([s EXCEPT !.url = NormalizeUrl(s.url)], "page.waitForSelector", "waitForSelector")

\* After page.waitForSelector: await page.goto(url, {timeout, waitUntil})
FromWaitForSelector(s) == Call([s EXCEPT !.navigated = s.url], "page.goto", "goto")

\* A limit of 0 switches the limit off; otherwise the operation is rejected
\* once it has run for the limit.
TimedOut(ticks, limit) == limit.t = "number" /\ limit.n > 0 /\ ticks >= limit.n

\* page.goto(url, {timeout, waitUntil})
GotoTimeout(s) == s.timeout

\* Faulty variant of PdfTimeout: page.pdf({..., timeout: 0}), no limit.
PdfTimeoutOff(s) == Num(0)

\* page.pdf({printBackground, format, landscape, timeout})
PdfTimeout(s) == s.timeout

\* Faulty variant of GotoRejected: the navigation is tried a second time.
GotoRejectedRetry(s, err) ==
    IF Cardinality({i \in 1..Len(s.log) : s.log[i] = "page.goto"}) < 2
    THEN FromWaitForSelector(s)
    ELSE CatchClose(s, err)

\* page.goto rejected (timeout, navigation error): straight to the catch block.
GotoRejected(s, err) == CatchClose(s, err)

\* if (!!requests?.length) { await page.setRequestInterception(true); ... }
FromInterception(s) ==
    IF s.requests.t = "array" /\ Len(s.requests.rules) # 0
    THEN Call(s, "page.setRequestInterception", "setRequestInterception")
    ELSE FromNormalize(s)

\* if (cookies) { await page.setCookie(...cookies); ... }
FromCookies(s) ==
    IF Truthy(s.cookies) THEN Call(s, "page.setCookie", "setCookie") ELSE FromInterception(s)

DefaultTimeout == 70000

\* generatePdf(url, requestId, timeout, requests, cookies, waitForSelector,
\* pdfOptions) up to its first await; b is the module's browser variable,
\* which is undefined until puppeteer.launch has resolved.  The timeout is
\* the body's (the POST handler passes req.body.timeout, the GET handler
\* nothing), 70000 when that is undefined.
GeneratePdf(s, b, url, requests, cookies, pdfOptions) ==
    LET f == [s EXCEPT !.gen = "running", !.genCalls = @ + 1, !.browserAt = b, !.url = url,
                       !.timeout = Default(s.body.timeout, Num(DefaultTimeout)),
                       !.requests = IF requests.t = "undefined"
                                    THEN [t |-> "array", rules |-> <<>>] ELSE requests,
                       !.cookies = Default(cookies, Null),
                       !.pdfOptions = IF pdfOptions.t = "undefined" THEN NoOptions
                                      ELSE pdfOptions]
    IN IF b # "ready" THEN GenerateThrew(f, Error("TypeError", Undefined))
       ELSE Call(f, "browser.newPage", "newPage")

(***************************************************************************)
(* compressutil.js: compressPdfBuffer.                                     *)
(***************************************************************************)
DefaultDpi == 150
DefaultQuality == 95
MinDpi == 10
MaxDpi == 600
MinQuality == 1
MaxQuality == 100

\* dpi = Math.max(10, Math.min(600, dpi))
ClampDpi(dpi) == MathMax(Num(MinDpi), MathMin(Num(MaxDpi), dpi))

\* jpegQuality = Math.max(1, Math.min(100, jpegQuality))
ClampQuality(q) == MathMax(Num(MinQuality), MathMin(Num(MaxQuality), q))

\* compressPdfBuffer(pdfBuffer, dpi = 150, jpegQuality = 95) up to the promise
\* it awaits: the arguments are clamped and formatted into args, gs is
\* spawned, the buffer is written to its stdin and stdin is ended.  spawned
\* is the environment's part: whether the gs binary could be started.
CompressPdfBuffer(s, pdfBuffer, dpi, jpegQuality, spawned, pc) ==
    Call([s EXCEPT !.spawns = @ + 1, !.gs =
            [NoProcess EXCEPT
                !.state = IF spawned THEN "running" ELSE "spawnFailed",
                !.dpi = NumberToString(ClampDpi(Default(dpi, Num(DefaultDpi)))),
                !.quality = NumberToString(ClampQuality(Default(jpegQuality, Num(DefaultQuality)))),
                !.stdin = pdfBuffer,
                !.stdinEnded = TRUE,
                !.promise = "pending"]],
         "compressPdfBuffer", pc)

\* resolve(value) and reject(reason): a promise settles once, later calls
\* change nothing.
Resolve(g, value) ==
    IF g.promise = "pending" THEN [g EXCEPT !.promise = "resolved", !.value = value] ELSE g

\* Faulty variant of Reject: a later rejection replaces the first settlement.
RejectAgain(g, reason) ==
    [g EXCEPT !.promise = "rejected", !.reason = reason, !.value = <<>>]

Reject(g, reason) ==
    IF g.promise = "pending" THEN [g EXCEPT !.promise = "rejected", !.reason = reason] ELSE g

\* Faulty variant of OnStdoutData: unshift instead of push.
OnStdoutDataUnshift(g, chunk) == [g EXCEPT !.outputChunks = <<chunk>> \o @]

\* gsProcess.stdout.on('data', chunk => outputChunks.push(chunk))
OnStdoutData(g, chunk) == [g EXCEPT !.outputChunks = Append(@, chunk)]

\* gsProcess.stderr.on('data', ...): console.error only
OnStderrData(g) == [g EXCEPT !.stderrLogged = TRUE]

\* gsProcess.on('error', ...)
OnError(g) == Reject(g, Error("Failed to execute Ghostscript", Undefined))

\* gsProcess.on('close', exitCode => ...): exitCode === 0
OnClose(g, exitCode) ==
    IF exitCode = Num(0) THEN Resolve(g, Concat(g.outputChunks))
    ELSE Reject(g, Error("Ghostscript process exited with code", exitCode))

(***************************************************************************)
(* generator.js: the continuations of generatePdf's awaits.                *)
(***************************************************************************)
\* Faulty variant of FromPdf: if (pdfOptions && pdfOptions.compression)
FromPdfTruthy(s, pdfBuffer, spawned) ==
    LET f == [s EXCEPT !.pdfBuffer = pdfBuffer]
    IN IF f.pdfOptions.t # "null" /\ Truthy(f.pdfOptions.compression)
       THEN CompressPdfBuffer(f, pdfBuffer, f.pdfOptions.dpi, f.pdfOptions.quality,
                              spawned, "compress")
       ELSE CloseThenReturn(f, pdfBuffer)

\* After page.pdf: if (pdfOptions != null && pdfOptions.compression == true)
FromPdf(s, pdfBuffer, spawned) ==
    LET f == [s EXCEPT !.pdfBuffer = pdfBuffer]
    IN IF f.pdfOptions.t # "null" /\ LooseEqualsTrue(f.pdfOptions.compression)
       THEN CompressPdfBuffer(f, pdfBuffer, f.pdfOptions.dpi, f.pdfOptions.quality,
                              spawned, "compress")
       ELSE CloseThenReturn(f, pdfBuffer)

\* The code that awaits the promise of compressPdfBuffer runs on as soon as
\* the promise settles: generatePdf (lines 226-230, or its catch) or the
\* compressPdf handler (lines 114-124).  s is the request before the event,
\* g the subprocess and promise after the event's listener ran.
AfterEvent(s, g) ==
    LET e == [s EXCEPT !.gs = g]
        f == Settled(e, "compressPdfBuffer")
    IN IF s.gs.promise # "pending" \/ g.promise = "pending" THEN e
       ELSE IF s.pc = "compress"
            THEN IF g.promise = "resolved" THEN CloseThenReturn(f, g.value)
                 ELSE CatchClose(f, g.reason)
            ELSE IF g.promise = "resolved" THEN SendPdf(f, g.value)
                 ELSE CompressFailed(f, g.reason)

RECURSIVE FindFrom(_, _, _)
FindFrom(rules, url, i) ==
    IF i > Len(rules) THEN 0
    ELSE IF Includes(url, rules[i].apiUrl) THEN i ELSE FindFrom(rules, url, i + 1)

RECURSIVE FindLastFrom(_, _, _)
FindLastFrom(rules, url, i) ==
    IF i < 1 THEN 0
    ELSE IF Includes(url, rules[i].apiUrl) THEN i ELSE FindLastFrom(rules, url, i - 1)

\* Faulty variant of Find: the last matching rule wins.
FindLast(rules, url) == FindLastFrom(rules, url, Len(rules))

\* requests.find(r => interceptedUrl.includes(r.apiUrl)): the index of the
\* first such rule, 0 when there is none.
Find(rules, url) == FindFrom(rules, url, 1)

\* page.on('request', interceptedRequest => ...): request is the intercepted
\* request, rules the requests parameter.
OnRequest(request, rules) ==
    IF request.handled # 0 THEN request
    ELSE LET match == Find(rules, request.url)
         IN IF match # 0
            THEN [request EXCEPT !.handled = @ + 1, !.action = "respond", !.status = 200,
                                 !.contentType = "application/json; charset=utf-8",
                                 !.body = JsonStringify(rules[match].apiBody)]
            ELSE [request EXCEPT !.handled = @ + 1, !.action = "continue"]

(***************************************************************************)
(* index.js: the three routes.                                             *)
(***************************************************************************)
UndefinedOptions ==
    [t |-> "undefined", compression |-> Undefined, dpi |-> Undefined, quality |-> Undefined]

\* app.get('/generateReport/:url'): generatePdf(url, req.requestId)
GetGenerateReport(s, b, body) ==
    GeneratePdf([s EXCEPT !.kind = "getReport", !.body = body], b,
                body.url, NoIntercept, Undefined, UndefinedOptions)

\* Faulty variant of PostGenerateReport: if (url === undefined)
PostGenerateReportUndefinedOnly(s, b, body) ==
    LET f == [s EXCEPT !.kind = "postReport", !.body = body]
        pdfOptions == [t |-> "object", compression |-> body.compression,
                       dpi |-> body.dpi, quality |-> body.quality]
    IN IF body.url = Undefined THEN SendText(f, 400, "Missing \"url\" in request body")
       ELSE GeneratePdf(f, b, body.url, body.intercept, body.cookies, pdfOptions)

\* Faulty variant of PostGenerateReport: the 400 is sent without return.
PostGenerateReportNoReturn(s, b, body) ==
    LET f == [s EXCEPT !.kind = "postReport", !.body = body]
        pdfOptions == [t |-> "object", compression |-> body.compression,
                       dpi |-> body.dpi, quality |-> body.quality]
    IN GeneratePdf(IF ~Truthy(body.url)
                   THEN SendText(f, 400, "Missing \"url\" in request body") ELSE f,
                   b, body.url, body.intercept, body.cookies, pdfOptions)

\* app.post('/generateReport')
PostGenerateReport(s, b, body) ==
    LET f == [s EXCEPT !.kind = "postReport", !.body = body]
        pdfOptions == [t |-> "object", compression |-> body.compression,
                       dpi |-> body.dpi, quality |-> body.quality]
    IN IF ~Truthy(body.url) THEN SendText(f, 400, "Missing \"url\" in request body")
       ELSE GeneratePdf(f, b, body.url, body.intercept, body.cookies, pdfOptions)

\* app.post('/compressPdf/:dpi') up to req.pipe(writable)
PostCompressPdf(s, body) ==
    [s EXCEPT !.kind = "compressPdf", !.body = body, !.pc = "upload",
              !.chunks = <<>>, !.incoming = body.upload]

\* write(chunk, encoding, callback) { chunks.push(chunk); callback(); }
OnWrite(s) == [s EXCEPT !.chunks = Append(@, Head(s.incoming)), !.incoming = Tail(@)]

\* Faulty variant of OnFinish: the empty-buffer check is missing.
OnFinishUnchecked(s, dpi, spawned) ==
    CompressPdfBuffer([s EXCEPT !.chunks = <<>>, !.pdfBuffer = Concat(s.chunks)],
                      Concat(s.chunks), dpi, Undefined, spawned, "compressRoute")

\* .on('finish', async () => ...) up to the await of compressPdfBuffer; dpi
\* is the value of parseInt(req.params.dpi, 10).
OnFinish(s, dpi, spawned) ==
    LET pdfBuffer == Concat(s.chunks)
        f == [s EXCEPT !.chunks = <<>>, !.pdfBuffer = pdfBuffer]
    IN IF Len(pdfBuffer) = 0 THEN SendText(f, 400, "No file uploaded or file is empty.")
       ELSE CompressPdfBuffer(f, pdfBuffer, dpi, Undefined, spawned, "compressRoute")

(***************************************************************************)
(* What the clients, the browser and the subprocess can do.                *)
(***************************************************************************)
Seqs(S, n) == UNION {[1..k -> S] : k \in 0..n}

HttpA == <<"h", "t", "t", "p", ":", "/", "/", "a">>

\* Interception rules {apiUrl, apiBody} and the urls the page requests.
Rules == [apiUrl : {<<"a">>, <<"a", "b">>}, apiBody : {Num(1), Num(2)}]
RuleLists == Seqs(Rules, MaxRules) \ {<<>>}
OneRule == <<[apiUrl |-> <<"a">>, apiBody |-> Num(1)]>>
PageUrls == {<<"x">>, <<"x", "a">>, <<"a", "b">>}

DpiInputs ==
    {Undefined, Null, Num(0 - 5), Num(0), Num(9), Num(10), Num(72), Num(600), Num(601),
     Str(<<"a", "b", "c">>)}
QualityInputs ==
    {Undefined, Null, Num(0 - 1), Num(0), Num(1), Num(50), Num(100), Num(101),
     Str(<<"a", "b", "c">>)}
DpiParams ==
    {<<"1", "5", "0">>, <<"9">>, <<"7", "0", "0">>, <<"-", "3">>, <<"7", "2", "x">>,
     <<"a", "b", "c">>}

\* GET /generateReport/:url: the path segment is a non-empty string.
GetBodies == {[NoBody EXCEPT !.url = Str(u)] : u \in {<<"a">>, HttpA}}

\* POST /generateReport: bodies that differ in what decides the path taken
\* (url, cookies, intercept, compression), ...
FlowBodies ==
    {[NoBody EXCEPT !.url = u, !.cookies = c, !.intercept = i, !.compression = f,
                    !.dpi = d[1], !.quality = d[2]] :
        u \in {Num(7), Str(<<"a">>), Str(HttpA)},
        c \in {Undefined, Arr(1)},
        i \in {NoIntercept, [t |-> "array", rules |-> <<>>], [t |-> "array", rules |-> OneRule]},
        f \in {Undefined, Bool(TRUE), Bool(FALSE), Num(1), Num(0), Str(<<"y">>)},
        d \in {<<Undefined, Undefined>>, <<Num(72), Num(50)>>}}

\* ... bodies with no url, or with a falsy one, ...
NoUrlBodies ==
    {[NoBody EXCEPT !.url = u, !.compression = f] :
        u \in {Undefined, Null, Str(<<>>), Num(0), Bool(FALSE)},
        f \in {Undefined, Bool(TRUE)}}

\* ... bodies that differ in the compression settings, ...
SettingsBodies ==
    {[NoBody EXCEPT !.url = Str(<<"a">>), !.compression = Bool(TRUE), !.dpi = d, !.quality = q] :
        d \in DpiInputs, q \in QualityInputs}

\* ... and bodies that differ in the interception rules.
InterceptBodies ==
    {[NoBody EXCEPT !.url = Str(<<"a">>), !.intercept = [t |-> "array", rules |-> l]] :
        l \in RuleLists}

\* ... and bodies that differ in the shape of the url.
HttpsA == <<"h", "t", "t", "p", "s", ":", "/", "/", "a">>
FtpA == <<"f", "t", "p", ":", "/", "/", "a">>
HttpbinOrg == <<"h", "t", "t", "p", "b", "i", "n", ".", "o", "r", "g">>
UrlBodies == {[NoBody EXCEPT !.url = Str(u)] : u \in {<<"a">>, HttpA, HttpsA, FtpA, HttpbinOrg}}

PostBodies ==
    FlowBodies \cup NoUrlBodies \cup SettingsBodies \cup InterceptBodies \cup UrlBodies

\* POST /generateReport with a timeout: none, 0 (no limit), or a number of ticks.
TimedBodies ==
    {[NoBody EXCEPT !.url = Str(<<"a">>), !.timeout = t] :
        t \in {Undefined, Num(0)} \cup {Num(n) : n \in 1..MaxTimeout}}

\* Concurrent requests: the bytes a request uploads, its page renders and
\* its subprocess writes carry the number of the request in their tens.
OwnBytes(r) == {10 * r + k : k \in 0..9}
PdfBuffersOf(r) == {<<10 * r + 1>>}
StdoutChunksOf(r) == {<<10 * r + 3>>}
UploadsOf(r) ==
    {[NoBody EXCEPT !.dpiParam = <<"1", "5", "0">>, !.upload = <<<<10 * r + 5>>>>]}
ConcurrentBodies ==
    {[NoBody EXCEPT !.url = Str(<<"a">>), !.compression = f] : f \in {Undefined, Bool(TRUE)}}

\* POST /compressPdf/:dpi: the path segment and the chunks of the body.
UploadChunks == {<<5>>, <<6>>}
CompressBodies ==
    {[NoBody EXCEPT !.dpiParam = p, !.upload = u] :
        p \in DpiParams, u \in Seqs(UploadChunks, MaxUpload)}

\* What page.pdf renders and what gs writes to stdout.
PdfBuffers == {<<1, 2>>, <<1>>}
StdoutChunks == {<<3>>, <<4>>}
\* The exit code of a process that ran: 0, a failure, or null (killed by a signal).
ExitCodes == {Num(0), Num(1), Null}
\* The close event after a failed spawn carries the negated errno (ENOENT).
SpawnErrno == Num(0 - 2)

(***************************************************************************)
(* Actions.                                                                *)
(***************************************************************************)
Set(r, s) == st' = [st EXCEPT ![r] = s]

\* init(): puppeteer.launch resolves and browser is assigned.
LaunchDone ==
    /\ browser = "launching"
    /\ browser' = "ready"
    /\ UNCHANGED <<st, pageCount>>

GetRequest(r) ==
    /\ st[r].pc = "idle"
    /\ \E body \in GetBodies : Set(r, GetGenerateReport(st[r], browser, body))
    /\ UNCHANGED <<browser, pageCount>>

PostWith(r, bodies) ==
    /\ st[r].pc = "idle"
    /\ \E body \in bodies : Set(r, PostGenerateReport(st[r], browser, body))
    /\ UNCHANGED <<browser, pageCount>>

PostRequest(r) == PostWith(r, PostBodies)

CompressWith(r, bodies) ==
    /\ st[r].pc = "idle"
    /\ \E body \in bodies : Set(r, PostCompressPdf(st[r], body))
    /\ UNCHANGED <<browser, pageCount>>

CompressRequest(r) == CompressWith(r, CompressBodies)

\* const page = await browser.newPage() settles (outside the try block).
NewPageDone(r) ==
    /\ st[r].pc = "newPage"
    /\ LET s == Settled(st[r], "browser.newPage")
       IN \/ /\ Set(r, FromCookies([s EXCEPT !.page.created = TRUE,
                                                !.page.id = pageCount + 1]))
             /\ pageCount' = pageCount + 1
          \/ /\ Set(r, GenerateThrew(s, Error("newPage", Undefined)))
             /\ UNCHANGED pageCount
    /\ UNCHANGED browser

SetCookieDone(r) ==
    /\ st[r].pc = "setCookie"
    /\ LET s == Settled(st[r], "page.setCookie")
       IN \E ok \in BOOLEAN :
           Set(r, IF ok THEN FromInterception([s EXCEPT !.page.cookies = TRUE])
                        ELSE CatchClose(s, Error("setCookie", Undefined)))
    /\ UNCHANGED <<browser, pageCount>>

SetRequestInterceptionDone(r) ==
    /\ st[r].pc = "setRequestInterception"
    /\ LET s == Settled(st[r], "page.setRequestInterception")
       IN \E ok \in BOOLEAN :
           Set(r, IF ok THEN FromNormalize([s EXCEPT !.page.interception = TRUE])
                        ELSE CatchClose(s, Error("setRequestInterception", Undefined)))
    /\ UNCHANGED <<browser, pageCount>>

WaitForSelectorDone(r) ==
    /\ st[r].pc = "waitForSelector"
    /\ LET s == Settled(st[r], "page.waitForSelector")
       IN \E ok \in BOOLEAN :
           Set(r, IF ok THEN FromWaitForSelector(s)
                        ELSE CatchClose(s, Error("waitForSelector", Undefined)))
    /\ UNCHANGED <<browser, pageCount>>

GotoDone(r) ==
    /\ st[r].pc = "goto"
    /\ LET s == Settled(st[r], "page.goto")
       IN \/ /\ ~TimedOut(s.navTicks, GotoTimeout(s))
             /\ Set(r, Call(s, "page.pdf", "pdf"))
          \/ Set(r, GotoRejected(s, Error("goto", Undefined)))
    /\ UNCHANGED <<browser, pageCount>>

PdfDoneWith(r, buffers) ==
    /\ st[r].pc = "pdf"
    /\ LET s == Settled(st[r], "page.pdf")
       IN \/ /\ ~TimedOut(s.pdfTicks, PdfTimeout(s))
             /\ \E pdfBuffer \in buffers, spawned \in BOOLEAN :
                   Set(r, FromPdf(s, pdfBuffer, spawned))
          \/ Set(r, CatchClose(s, Error("pdf", Undefined)))
    /\ UNCHANGED <<browser, pageCount>>

PdfDone(r) == PdfDoneWith(r, PdfBuffers)

\* await page.close() of the success path settles (inside the try block).
CloseReturnDone(r) ==
    /\ st[r].pc = "closeReturn"
    /\ LET s == Settled(st[r], "page.close")
       IN \E ok \in BOOLEAN :
           Set(r, IF ok THEN GenerateReturned([s EXCEPT !.page.closed = TRUE], s.result)
                        ELSE CatchClose(s, Error("close", Undefined)))
    /\ UNCHANGED <<browser, pageCount>>

\* await page.close() of the catch block settles; throw ex.
CloseThrowDone(r) ==
    /\ st[r].pc = "closeThrow"
    /\ LET s == Settled(st[r], "page.close")
       IN \E ok \in BOOLEAN :
           Set(r, IF ok THEN GenerateThrew([s EXCEPT !.page.closed = TRUE], s.ex)
                        ELSE GenerateThrew(s, Error("close", Undefined)))
    /\ UNCHANGED <<browser, pageCount>>

\* Time passes while page.goto or page.pdf is pending, up to its limit.
Tick(r) ==
    /\ st[r].navTicks + st[r].pdfTicks < MaxTicks
    /\ \/ /\ st[r].pc = "goto"
          /\ ~TimedOut(st[r].navTicks, GotoTimeout(st[r]))
          /\ Set(r, [st[r] EXCEPT !.navTicks = @ + 1])
       \/ /\ st[r].pc = "pdf"
          /\ ~TimedOut(st[r].pdfTicks, PdfTimeout(st[r]))
          /\ Set(r, [st[r] EXCEPT !.pdfTicks = @ + 1])
    /\ UNCHANGED <<browser, pageCount>>

\* The page sends a request while interception is on.
PageRequest(r) ==
    /\ st[r].page.interception
    /\ ~st[r].page.closed
    /\ \E url \in PageUrls :
        Set(r, [st[r] EXCEPT !.lastRequest =
                    OnRequest([NoRequest EXCEPT !.url = url], st[r].requests.rules)])
    /\ UNCHANGED <<browser, pageCount>>

GsStdoutWith(r, chunks) ==
    /\ st[r].gs.state = "running"
    /\ Len(st[r].gs.emitted) < MaxChunks
    /\ \E chunk \in chunks :
        Set(r, AfterEvent(st[r], OnStdoutData([st[r].gs EXCEPT !.emitted = Append(@, chunk)],
                                              chunk)))
    /\ UNCHANGED <<browser, pageCount>>

GsStdout(r) == GsStdoutWith(r, StdoutChunks)

GsStderr(r) ==
    /\ st[r].gs.state = "running"
    /\ ~st[r].gs.stderrLogged
    /\ Set(r, AfterEvent(st[r], OnStderrData(st[r].gs)))
    /\ UNCHANGED <<browser, pageCount>>

GsError(r) ==
    /\ st[r].gs.state = "spawnFailed"
    /\ Set(r, AfterEvent(st[r], OnError([st[r].gs EXCEPT !.state = "errored",
                                                         !.errorEvent = TRUE])))
    /\ UNCHANGED <<browser, pageCount>>

GsClose(r) ==
    /\ st[r].gs.state \in {"running", "errored"}
    /\ \E exitCode \in IF st[r].gs.state = "running" THEN ExitCodes ELSE {SpawnErrno} :
        Set(r, AfterEvent(st[r], OnClose([st[r].gs EXCEPT !.state = "closed",
                                                          !.exitCode = exitCode], exitCode)))
    /\ UNCHANGED <<browser, pageCount>>

UploadChunk(r) ==
    /\ st[r].pc = "upload"
    /\ st[r].incoming # <<>>
    /\ Set(r, OnWrite(st[r]))
    /\ UNCHANGED <<browser, pageCount>>

UploadFinish(r) ==
    /\ st[r].pc = "upload"
    /\ st[r].incoming = <<>>
    /\ \E spawned \in BOOLEAN, dpi \in {ParseInt(st[r].body.dpiParam)} :
            Set(r, OnFinish(st[r], dpi, spawned))
    /\ UNCHANGED <<browser, pageCount>>

Step(r) ==
    \/ GetRequest(r)
    \/ PostRequest(r)
    \/ CompressRequest(r)
    \/ NewPageDone(r)
    \/ SetCookieDone(r)
    \/ SetRequestInterceptionDone(r)
    \/ WaitForSelectorDone(r)
    \/ GotoDone(r)
    \/ PdfDone(r)
    \/ CloseReturnDone(r)
    \/ CloseThrowDone(r)
    \/ PageRequest(r)
    \/ GsStdout(r)
    \/ GsStderr(r)
    \/ GsError(r)
    \/ GsClose(r)
    \/ UploadChunk(r)
    \/ UploadFinish(r)

\* One request, every kind of input.
Next == LaunchDone \/ Step(1)

Spec == Init /\ [][Next]_vars

\* One request with a timeout, followed through navigation and rendering
\* while time passes.
StepTime(r) ==
    \/ PostWith(r, TimedBodies)
    \/ NewPageDone(r)
    \/ WaitForSelectorDone(r)
    \/ GotoDone(r)
    \/ PdfDone(r)
    \/ CloseReturnDone(r)
    \/ CloseThrowDone(r)
    \/ Tick(r)

NextTime == LaunchDone \/ StepTime(1)

SpecTime == Init /\ [][NextTime]_vars

\* Faulty variant of HoldsEventLoop: spawnSync, the thread waits for gs.
HoldsEventLoopSync(s) == s.gs.state = "running"

\* spawn() returns at once and the promise is awaited: while its subprocess
\* (or its browser call) is pending, a request does not hold the event loop.
HoldsEventLoop(s) == FALSE

\* The event loop can run a callback of request r.
Free(r) == \A q \in Reqs \ {r} : ~HoldsEventLoop(st[q])

\* A request arrives.
Arrive(r) == PostWith(r, ConcurrentBodies) \/ CompressWith(r, UploadsOf(r))

\* An operation the request waits for completes.
Complete(r) ==
    \/ NewPageDone(r)
    \/ WaitForSelectorDone(r)
    \/ GotoDone(r)
    \/ PdfDoneWith(r, PdfBuffersOf(r))
    \/ CloseReturnDone(r)
    \/ CloseThrowDone(r)
    \/ GsError(r)
    \/ GsClose(r)
    \/ UploadChunk(r)
    \/ UploadFinish(r)

StepConc(r) == Arrive(r) \/ Complete(r) \/ GsStdoutWith(r, StdoutChunksOf(r))

\* All the requests, interleaved in any order: the event loop runs one
\* callback of one of the requests it is free to run.
NextConc == LaunchDone \/ \E r \in {q \in Reqs : Free(q)} : StepConc(r)

\* The browser and the subprocesses of every request but the first complete
\* what they were asked, and the event loop runs the callback; the first
\* request's operations may stay pending for ever.
SpecConc ==
    /\ Init
    /\ [][NextConc]_vars
    /\ \A r \in Reqs \ {1} : WF_vars(Free(r) /\ Complete(r))

(***************************************************************************)
(* Properties.                                                             *)
(***************************************************************************)
Exited(s) == s.gen \in {"returned", "threw"}
Called(s, name) == \E i \in 1..Len(s.log) : s.log[i] = name

\* C1: once generatePdf has acquired a page, page.close() has been called on
\* it before generatePdf returns a buffer or throws, whatever step failed.
PageClosedBeforeExit ==
    \A r \in Reqs :
        Exited(st[r]) /\ st[r].page.created
            => st[r].page.closeCalls >= 1 /\ Called(st[r], "page.close")

\* A compression failure propagated, after the page was closed.
PageClosedBeforeExitWitness ==
    \E r \in Reqs :
        /\ st[r].gen = "threw"
        /\ st[r].page.created
        /\ st[r].ex.kind = "Ghostscript process exited with code"
        /\ st[r].page.closeCalls = 1

\* C2: in every execution of generatePdf, page.close() is called exactly once
\* on the page it opened, also when the close of the success path rejects.
PageClosedExactlyOnce ==
    \A r \in Reqs :
        Exited(st[r]) /\ st[r].page.created => st[r].page.closeCalls = 1

\* C3: POST /generateReport without a url (missing or falsy) answers 400 and
\* never invokes generatePdf: no page, no navigation, no compression.
FalsyUrls == {Undefined, Null, Str(<<>>), Num(0), Bool(FALSE)}

MissingUrlRejected ==
    \A r \in Reqs :
        st[r].kind = "postReport" /\ st[r].body.url \in FalsyUrls
            => /\ st[r].res.count = 1
               /\ st[r].res.status = 400
               /\ st[r].gen = "none"
               /\ st[r].log = <<>>
               /\ ~st[r].page.created
               /\ st[r].gs.state = "none"

MissingUrlRejectedWitness ==
    \E r \in Reqs :
        /\ st[r].kind = "postReport"
        /\ st[r].body.url = Str(<<>>)
        /\ st[r].body.compression = Bool(TRUE)
        /\ st[r].res.status = 400

\* C4: POST /compressPdf/:dpi hands compressPdfBuffer the whole body, only
\* after the last chunk arrived, and an empty body answers 400 without
\* invoking compressPdfBuffer, whatever the dpi segment.
EmptyUploadRejected ==
    \A r \in Reqs :
        st[r].kind = "compressPdf"
            => /\ st[r].gs.state # "none"
                    => st[r].incoming = <<>> /\ st[r].gs.stdin = Concat(st[r].body.upload)
               /\ Concat(st[r].body.upload) = <<>>
                    => st[r].gs.state = "none" /\ ~Called(st[r], "compressPdfBuffer")
               /\ Concat(st[r].body.upload) = <<>> /\ st[r].pc = "done"
                    => st[r].res.count = 1 /\ st[r].res.status = 400

EmptyUploadRejectedWitness ==
    \E r \in Reqs :
        /\ st[r].kind = "compressPdf"
        /\ st[r].body.upload = <<>>
        /\ st[r].body.dpiParam = <<"a", "b", "c">>
        /\ st[r].res.status = 400

\* C5: whatever resolution and quality reach compressPdfBuffer, the resolution
\* in the subprocess arguments is in [10,600] and the quality in [1,100];
\* in-range values are passed unchanged, omitted ones become 150 and 95.
IsNatString(s) == s # <<>> /\ DigitPrefix(s) = s

ArgumentsWithinRange ==
    \A r \in Reqs :
        st[r].gs.state # "none"
            => /\ IsNatString(st[r].gs.dpi)
               /\ DigitsValue(st[r].gs.dpi, 0) \in 10..600
               /\ IsNatString(st[r].gs.quality)
               /\ DigitsValue(st[r].gs.quality, 0) \in 1..100
               /\ st[r].kind = "postReport" /\ st[r].body.dpi = Num(72)
                    => st[r].gs.dpi = <<"7", "2">>
               /\ st[r].kind = "postReport" /\ st[r].body.dpi = Undefined
                    => st[r].gs.dpi = <<"1", "5", "0">>
               /\ st[r].kind = "postReport" /\ st[r].body.quality = Num(50)
                    => st[r].gs.quality = <<"5", "0">>
               /\ st[r].kind = "compressPdf" \/ st[r].body.quality = Undefined
                    => st[r].gs.quality = <<"9", "5">>

\* C6: the promise of compressPdfBuffer resolves only when the subprocess
\* closed with exit code 0, with the stdout chunks concatenated in arrival
\* order; it is pending until an error or close event, whatever stderr says.
ResolvesOnCleanExitOnly ==
    \A r \in Reqs :
        LET g == st[r].gs
        IN /\ g.promise = "resolved"
                => g.state = "closed" /\ g.exitCode = Num(0) /\ g.value = Concat(g.emitted)
           /\ g.state \in {"running", "spawnFailed"} => g.promise = "pending"
           /\ g.promise = "rejected"
                => g.errorEvent \/ (g.state = "closed" /\ g.exitCode # Num(0))

ResolvesOnCleanExitOnlyWitness ==
    \E r \in Reqs :
        LET g == st[r].gs
        IN /\ g.promise = "resolved"
           /\ g.stderrLogged
           /\ Len(g.emitted) = 2
           /\ g.emitted[1] # g.emitted[2]

\* C7: the promise of compressPdfBuffer rejects when gs cannot be spawned and
\* when it closes with a non-zero exit status, then with the exit code in the
\* message; the first settlement stands (the close event that follows a spawn
\* error changes nothing) and a rejected call yields no buffer.
RejectsOnFailure ==
    \A r \in Reqs :
        LET g == st[r].gs
        IN /\ g.errorEvent
                => g.promise = "rejected"
                   /\ g.reason = Error("Failed to execute Ghostscript", Undefined)
           /\ g.state = "closed" /\ ~g.errorEvent /\ g.exitCode # Num(0)
                => g.promise = "rejected"
                   /\ g.reason = Error("Ghostscript process exited with code", g.exitCode)
           /\ g.promise = "rejected"
                => g.value = <<>> /\ st[r].result = <<>> /\ st[r].res.bytes = <<>>

RejectsOnFailureWitness ==
    \E r \in Reqs :
        LET g == st[r].gs
        IN g.errorEvent /\ g.state = "closed" /\ g.exitCode = SpawnErrno /\ g.promise = "rejected"

\* C8: a failure of generatePdf or of compressPdfBuffer is answered with
\* status 500 and the route's fixed message: none of the error's text and no
\* PDF bytes.
AdapterFailed(s) ==
    \/ s.kind \in {"getReport", "postReport"} /\ s.gen = "threw"
    \/ s.kind = "compressPdf" /\ s.gs.promise = "rejected"

FailureIsGeneric500 ==
    \A r \in Reqs :
        AdapterFailed(st[r])
            => /\ st[r].res.count = 1
               /\ st[r].res.status = 500
               /\ st[r].res.text = IF st[r].kind = "compressPdf" THEN "Error compressing PDF"
                                                                 ELSE "Failed to generate PDF"
               /\ st[r].res.text # st[r].ex.kind
               /\ st[r].res.bytes = <<>>
               /\ st[r].res.type # "application/pdf"

\* gs wrote output and exited with code 1: the partial output is dropped.
FailureIsGeneric500Witness ==
    \E r \in Reqs :
        /\ st[r].kind = "postReport"
        /\ st[r].gs.exitCode = Num(1)
        /\ st[r].gs.outputChunks # <<>>
        /\ st[r].gen = "threw"
        /\ st[r].res.status = 500

\* C9: with interception rules, a page request whose url contains the apiUrl
\* of some rule gets a 200 JSON response with the apiBody of the first such
\* rule and is not continued; any other request is continued unmodified; the
\* handler resolves a request once.
Matching(rules, url) == {i \in 1..Len(rules) : Includes(url, rules[i].apiUrl)}
First(S) == CHOOSE i \in S : \A j \in S : i <= j
JsonOf(v) == IF v = Num(1) THEN Str(<<"1">>) ELSE Str(<<"2">>)

FirstMatchingRuleAnswers ==
    \A r \in Reqs :
        LET q == st[r].lastRequest
            rules == st[r].requests.rules
            m == Matching(rules, q.url)
        IN q.action # "none"
            => /\ q.handled = 1
               /\ m # {} => /\ q.action = "respond"
                            /\ q.status = 200
                            /\ q.contentType = "application/json; charset=utf-8"
                            /\ q.body = JsonOf(rules[First(m)].apiBody)
               /\ m = {} => q.action = "continue" /\ q.status = 0 /\ q.body = Undefined

FirstMatchingRuleAnswersWitness ==
    \E r \in Reqs :
        LET q == st[r].lastRequest
            rules == st[r].requests.rules
        IN /\ q.action = "respond"
           /\ Cardinality(Matching(rules, q.url)) = 2
           /\ rules[1].apiBody # rules[2].apiBody

\* C10: generatePdf pipes the rendered buffer through compressPdfBuffer, with
\* the given dpi and quality, exactly when settings are supplied and their
\* compression flag is true (true, or 1, which == true also accepts);
\* otherwise it returns the rendered buffer unchanged and spawns nothing.
TrueFlags == {Bool(TRUE), Num(1)}

CompressesIffEnabled ==
    \A r \in Reqs :
        LET s == st[r]
            enabled == s.kind = "postReport" /\ s.body.compression \in TrueFlags
        IN s.kind \in {"getReport", "postReport"}
            => /\ s.gs.state # "none" => enabled /\ s.gs.stdin = s.pdfBuffer
               /\ enabled /\ s.pdfBuffer # <<>> => s.gs.state # "none"
               /\ s.gs.state # "none" /\ s.body.dpi = Num(72) /\ s.body.quality = Num(50)
                    => s.gs.dpi = <<"7", "2">> /\ s.gs.quality = <<"5", "0">>
               /\ s.gen = "returned" /\ enabled => s.res.bytes = s.gs.value
               /\ s.gen = "returned" /\ ~enabled
                    => s.res.bytes = s.pdfBuffer /\ ~Called(s, "compressPdfBuffer")

CompressesIffEnabledWitness ==
    \E r \in Reqs :
        /\ st[r].kind = "postReport"
        /\ st[r].body.compression = Bool(TRUE)
        /\ st[r].body.dpi = Num(72)
        /\ st[r].gen = "returned"
        /\ st[r].res.bytes = <<3, 4>>

HttpPrefix == <<"h", "t", "t", "p", ":", "/", "/">>
HasScheme(u) ==
    \E k \in 1..Len(u) :
        /\ k + 3 <= Len(u)
        /\ SubSeq(u, k + 1, k + 3) = <<":", "/", "/">>
        /\ \A i \in 1..k : u[i] \notin {":", "/", "."}

\* C11 (as claimed): a url without a scheme prefix is navigated to as
\* "http://" followed by the url, and a url that has a scheme prefix is
\* navigated to unchanged.
NavigatesWithScheme ==
    \A r \in Reqs :
        st[r].navigated.t = "string"
            => st[r].navigated.s = IF HasScheme(st[r].body.url.s) THEN st[r].body.url.s
                                   ELSE HttpPrefix \o st[r].body.url.s

StartsWithHttp(u) ==
    Len(u) >= 4 /\ u[1] = "h" /\ u[2] = "t" /\ u[3] = "t" /\ u[4] = "p"

\* C11 (amended): a url that does not start with the four characters "http"
\* is navigated to as "http://" followed by the url, and a url that starts
\* with "http" is navigated to unchanged.
NavigatesWithHttp ==
    \A r \in Reqs :
        st[r].navigated.t = "string"
            => st[r].navigated.s = IF StartsWithHttp(st[r].body.url.s) THEN st[r].body.url.s
                                   ELSE HttpPrefix \o st[r].body.url.s

NavigatesWithHttpWitness ==
    \E r \in Reqs :
        /\ st[r].body.url = Str(FtpA)
        /\ st[r].navigated = Str(HttpPrefix \o FtpA)
        /\ Called(st[r], "page.goto")

\* The place of each operation of generatePdf in the order of its steps.
StepRank(name) ==
    CASE name = "browser.newPage" -> 1
      [] name = "page.setCookie" -> 2
      [] name = "page.setRequestInterception" -> 3
      [] name = "page.waitForSelector" -> 4
      [] name = "page.goto" -> 5
      [] name = "page.pdf" -> 6
      [] name = "compressPdfBuffer" -> 7
      [] name = "page.close" -> 8

\* The operation whose failure an error reports.
FailedStep(kind) ==
    CASE kind = "newPage" -> "browser.newPage"
      [] kind = "setCookie" -> "page.setCookie"
      [] kind = "setRequestInterception" -> "page.setRequestInterception"
      [] kind = "waitForSelector" -> "page.waitForSelector"
      [] kind = "goto" -> "page.goto"
      [] kind = "pdf" -> "page.pdf"
      [] kind = "close" -> "page.close"
      [] OTHER -> "compressPdfBuffer"

HasRules(s) == s.requests.t = "array" /\ Len(s.requests.rules) # 0

\* The steps started so far are in the order of generatePdf, none twice
\* (page.close apart, which is the cleanup).
InStepOrder(s) ==
    \A i, j \in 1..Len(s.log) :
        i < j => \/ StepRank(s.log[i]) < StepRank(s.log[j])
                 \/ s.log[j] = "page.close"

\* A step is started only when every step before it has settled.
OneAtATime(s) ==
    \/ s.inflight = {}
    \/ Len(s.log) > 0 /\ s.inflight = {s.log[Len(s.log)]}

\* No step is skipped: the optional ones run exactly when their input is there.
NoStepSkipped(s) ==
    /\ Called(s, "page.close") => Called(s, "browser.newPage")
    /\ Called(s, "page.setCookie") => Called(s, "browser.newPage") /\ Truthy(s.cookies)
    /\ Called(s, "page.setRequestInterception") => Called(s, "browser.newPage") /\ HasRules(s)
    /\ Called(s, "page.waitForSelector") =>
            /\ Called(s, "browser.newPage")
            /\ Truthy(s.cookies) => Called(s, "page.setCookie")
            /\ HasRules(s) => Called(s, "page.setRequestInterception")
    /\ Called(s, "page.goto") => Called(s, "page.waitForSelector")
    /\ Called(s, "page.pdf") => Called(s, "page.goto")
    /\ Called(s, "compressPdfBuffer") =>
            Called(s, "page.pdf") /\ LooseEqualsTrue(s.pdfOptions.compression)
    /\ s.gen = "returned" =>
            /\ Called(s, "page.pdf")
            /\ s.pdfOptions.t # "null" /\ LooseEqualsTrue(s.pdfOptions.compression)
                    => Called(s, "compressPdfBuffer")

\* After a failed step nothing but page.close is started.
OnlyCloseAfterFailure(s) ==
    /\ s.ex.kind = "TypeError" => \A i \in 1..Len(s.log) : StepRank(s.log[i]) \in {1, 2, 3, 8}
    /\ s.ex # NoError /\ s.ex.kind # "TypeError" =>
            \E k \in 1..Len(s.log) :
                /\ s.log[k] = FailedStep(s.ex.kind)
                /\ \A j \in (k + 1)..Len(s.log) : s.log[j] = "page.close"

\* C12: generatePdf runs its steps in the order acquire page, cookies (if
\* given), interception (if rules are given), wait for selector, navigate,
\* render, compress (if enabled), close page; each step starts only after
\* the one before it has completed, and after a failed step no later step
\* other than the closing of the page is started.
StepsInOrder ==
    \A r \in Reqs :
        st[r].gen # "none" =>
            /\ InStepOrder(st[r])
            /\ OneAtATime(st[r])
            /\ NoStepSkipped(st[r])
            /\ OnlyCloseAfterFailure(st[r])

StepsInOrderWitness ==
    \E r \in Reqs :
        /\ st[r].gen = "returned"
        /\ st[r].log = <<"browser.newPage", "page.setCookie", "page.setRequestInterception",
                         "page.waitForSelector", "page.goto", "page.pdf",
                         "compressPdfBuffer", "page.close">>
        /\ st[r].inflight = {}

Count(s, name) == Cardinality({i \in 1..Len(s.log) : s.log[i] = name})

\* C14: nothing is retried.  A request calls generatePdf at most once, gets
\* at most one page, navigates at most once and renders at most once; each
\* call of compressPdfBuffer starts exactly one subprocess; and once an
\* operation has failed, nothing but the closing of the page is started and
\* the response, when sent, is the error response.
NoRetry ==
    \A r \in Reqs :
        /\ st[r].genCalls <= 1
        /\ Count(st[r], "browser.newPage") <= 1
        /\ Count(st[r], "page.goto") <= 1
        /\ Count(st[r], "page.pdf") <= 1
        /\ st[r].spawns = Count(st[r], "compressPdfBuffer")
        /\ st[r].spawns <= 1
        /\ st[r].ex # NoError =>
                /\ OnlyCloseAfterFailure(st[r])
                /\ st[r].pc = "done" => st[r].res.status = 500 /\ st[r].res.bytes = <<>>

NoRetryWitness ==
    \E r \in Reqs :
        /\ st[r].pc = "done"
        /\ st[r].gen = "threw"
        /\ st[r].ex.kind = "goto"
        /\ st[r].log = <<"browser.newPage", "page.waitForSelector", "page.goto", "page.close">>
        /\ st[r].res.status = 500

\* C17: the browser is launched once, every page is created from that
\* instance, and no request reaches browser.newPage() before the launch
\* started at load time has completed: browserAt is the state of the
\* module's browser variable when the request evaluated browser.newPage().
LaunchedBeforeNewPage ==
    \A r \in Reqs :
        /\ st[r].gen # "none" => st[r].browserAt = "ready"
        /\ st[r].page.created => browser = "ready"

\* Nothing the request waits for is outstanding: the body stream has
\* finished and every browser and subprocess operation has settled.
AllSettled(s) == s.kind # "none" /\ s.pc # "upload" /\ s.inflight = {}

\* The adapter (generatePdf, or compressPdfBuffer in the compressPdf
\* handler) has returned the buffer the response carries.
AdapterReturned(s) ==
    IF s.kind = "compressPdf"
    THEN s.gs.promise = "resolved" /\ s.res.bytes = s.gs.value
    ELSE s.gen = "returned" /\ s.res.bytes = s.result

\* C18: a request sends at most one response on every path, and exactly one
\* once the body stream has finished and its browser and subprocess
\* operations have settled; 200 with Content-Type application/pdf is sent
\* only after the adapter returned a buffer.
OneResponse ==
    \A r \in Reqs :
        /\ st[r].res.count <= 1
        /\ AllSettled(st[r]) => st[r].res.count = 1
        /\ st[r].res.count = 1 /\ st[r].res.status = 200 =>
                st[r].res.type = "application/pdf" /\ AdapterReturned(st[r])
        /\ st[r].res.type = "application/pdf" => st[r].res.status = 200
        /\ st[r].res.count = 1 => st[r].res.status \in {200, 400, 500}

OneResponseWitness ==
    \E r \in Reqs :
        /\ st[r].kind = "compressPdf"
        /\ AllSettled(st[r])
        /\ st[r].res.count = 1
        /\ st[r].res.status = 200
        /\ st[r].res.bytes # <<>>

HasLimit(s) == s.gen # "none" /\ s.timeout.t = "number" /\ s.timeout.n > 0

\* A failed navigation or rendering has closed the page before generatePdf throws.
ClosedBeforeThrow(s) ==
    s.gen = "threw" /\ s.ex.kind \in {"goto", "pdf"} =>
        s.page.closeCalls = 1 /\ s.log[Len(s.log)] = "page.close"

\* C13 (as claimed): navigation and rendering share one budget: with a
\* timeout of T ticks, the ticks spent navigating plus the ticks spent
\* rendering never exceed T, and on timeout the page is closed before the
\* error propagates.
SharedTimeoutBudget ==
    \A r \in Reqs :
        /\ HasLimit(st[r]) => st[r].navTicks + st[r].pdfTicks <= st[r].timeout.n
        /\ ClosedBeforeThrow(st[r])

\* C13 (amended): with a timeout of T > 0 ticks, navigation never takes more
\* than T and rendering never takes more than T, each counted from its own
\* start (together at most 2T); a navigation that has used up T is rejected
\* and nothing is rendered, and on timeout the page is closed before the
\* error propagates.
SeparateTimeouts ==
    \A r \in Reqs :
        /\ HasLimit(st[r]) =>
                /\ st[r].navTicks <= st[r].timeout.n
                /\ st[r].pdfTicks <= st[r].timeout.n
                /\ Called(st[r], "page.pdf") => st[r].navTicks < st[r].timeout.n
                /\ st[r].gen = "returned" => st[r].pdfTicks < st[r].timeout.n
        /\ ClosedBeforeThrow(st[r])

SeparateTimeoutsWitness ==
    \E r \in Reqs :
        /\ st[r].timeout = Num(2)
        /\ st[r].navTicks = 1
        /\ st[r].pdfTicks = 2
        /\ st[r].gen = "threw"
        /\ st[r].ex.kind = "pdf"
        /\ st[r].page.closed

AllOwn(r, bytes) == \A i \in 1..Len(bytes) : bytes[i] \in OwnBytes(r)

\* C15: requests that run concurrently share no per-request resource: a
\* request calls page methods only on the page it created, and no two
\* requests have the same page; the chunks compressPdfBuffer collects are the
\* ones its own subprocess wrote; and the bytes of a response are the ones the
\* request's own page rendered or its own subprocess wrote.
NothingShared ==
    \A r \in Reqs :
        /\ st[r].touched \subseteq {st[r].page.id}
        /\ st[r].touched # {} => st[r].page.created
        /\ st[r].page.created =>
                /\ st[r].page.id \in 1..pageCount
                /\ \A q \in Reqs \ {r} : st[q].page.created => st[q].page.id # st[r].page.id
        /\ st[r].gs.outputChunks = st[r].gs.emitted
        /\ \A i \in 1..Len(st[r].gs.outputChunks) :
                st[r].gs.outputChunks[i] \in StdoutChunksOf(r)
        /\ AllOwn(r, st[r].res.bytes)
        /\ AllOwn(r, st[r].result)

NothingSharedWitness ==
    /\ \A r \in Reqs : r <= 2 => st[r].pc = "done" /\ st[r].res.status = 200
    /\ st[1].page.id = 2
    /\ st[2].page.id = 1
    /\ st[1].touched = {2}
    /\ st[1].res.bytes = <<13, 13>>
    /\ st[2].res.bytes = <<21>>

\* C16: a request that waits does not block the others.  While the
\* compression subprocess of a request has not closed the request has no
\* response; and every other request, whose own operations do complete, gets
\* its response, even if that subprocess never closes.
OthersNotBlocked ==
    /\ [](\A r \in Reqs : st[r].gs.state = "running" => st[r].res.count = 0)
    /\ \A r \in Reqs \ {1} : (st[r].pc # "idle") ~> (st[r].pc = "done" /\ st[r].res.count = 1)

OthersNotBlockedWitness ==
    /\ st[1].gs.state = "running"
    /\ st[1].res.count = 0
    /\ st[2].pc = "done"
    /\ st[2].res.status = 200
    /\ st[2].gs.state = "closed"

=============================================================================
